---- MODULE Spec2Model ----
(***************************************************************************)
(* A model of riffparse's RIFF engine (src/src/riff.rs): one seekable byte *)
(* stream shared by a root list, an iterator over the root's children, a   *)
(* nested iterator over the child it yielded, and the nodes' data reads.   *)
(*                                                                         *)
(* The stream is modelled byte by byte.  To keep 32-bit arithmetic inside  *)
(* the model checker's integers a byte holds ByteBits bits instead of 8,   *)
(* so a little-endian u32 is still four bytes and wraps at U32Mod.         *)
(* Four-character codes are only compared, never computed with, and keep   *)
(* their ASCII values.                                                     *)
(*                                                                         *)
(* On top of the engine stands the AVI layer (src/src/avi.rs):             *)
(* AviParser::new, which walks the tag chain, the declared streams and the *)
(* siblings of hdrl of a file laid out byte by byte, find_best_stream over *)
(* the table new built, tag::stream, and the per-stream sample sequences  *)
(* of movi_chunks over the movi list.                                      *)
(***************************************************************************)
EXTENDS Integers, Sequences, FiniteSets, TLC

\* ------------------------------------------------------------------------
\* Bounds of the model
\* ------------------------------------------------------------------------
ByteBits == 3
MaxBlocks == 3

ByteBase == 2 ^ ByteBits
U32Mod == ByteBase ^ 4
U32Max == U32Mod - 1

\* ------------------------------------------------------------------------
\* Program constants
\* ------------------------------------------------------------------------
\* size_of::<Fourcc>()
FourccSize == 4
\* a chunk header: chunk_id (Fourcc) + size (u32)
ChunkHeaderSize == 8
\* a list header: magic + size (u32) + list_id (Fourcc)
ListHeaderSize == 12

\* Fourcc tags, four bytes each (every byte below ByteBase)
TagRIFF == <<2, 1, 3, 3>>
TagLIST == <<3, 1, 2, 1>>
TagForm == <<1, 0, 0, 1>>
TagSub  == <<1, 1, 0, 2>>
TagData == <<0, 1, 0, 3>>

\* ------------------------------------------------------------------------
\* Bytes, little-endian integers, u32 arithmetic
\* ------------------------------------------------------------------------
\* u32::from_le_bytes
U32LE(b) == b[1] + b[2] * ByteBase + b[3] * ByteBase ^ 2 + b[4] * ByteBase ^ 3

\* u32::to_le_bytes (used to lay out the input streams)
LE32(n) == << n % ByteBase, (n \div ByteBase) % ByteBase,
              (n \div (ByteBase ^ 2)) % ByteBase, (n \div (ByteBase ^ 3)) % ByteBase >>

\* read_exact: n bytes are available at offset p (offsets count from 0)
Avail(s, p, n) == p + n <= Len(s)

\* the n bytes at offset p
Bytes(s, p, n) == [i \in 1..n |-> s[p + i]]

\* u32 `a + b`: overflow panics in a build with overflow checks ("debug")
\* and wraps in one without ("release")
AddOverflows(a, b) == a + b >= U32Mod
AddU32(a, b) == (a + b) % U32Mod

\* ------------------------------------------------------------------------
\* Header::read : the 3-way tagged header, variants tried in order
\* ------------------------------------------------------------------------
NoHeader == [variant |-> "Err", size |-> 0, id |-> <<>>, end |-> 0]

HeaderRead(s, p) ==
    IF Avail(s, p, ListHeaderSize) /\ Bytes(s, p, 4) = TagRIFF
    THEN [variant |-> "Riff", size |-> U32LE(Bytes(s, p + 4, 4)),
          id |-> Bytes(s, p + 8, 4), end |-> p + ListHeaderSize]
    ELSE IF Avail(s, p, ListHeaderSize) /\ Bytes(s, p, 4) = TagLIST
    THEN [variant |-> "List", size |-> U32LE(Bytes(s, p + 4, 4)),
          id |-> Bytes(s, p + 8, 4), end |-> p + ListHeaderSize]
    ELSE IF Avail(s, p, ChunkHeaderSize)
    THEN [variant |-> "Chunk", size |-> U32LE(Bytes(s, p + 4, 4)),
          id |-> Bytes(s, p, 4), end |-> p + ChunkHeaderSize]
    ELSE [NoHeader EXCEPT !.end = p]

\* ------------------------------------------------------------------------
\* Nodes: Chunk<R> and List<R> (header + Metadata.data_start)
\* ------------------------------------------------------------------------
NoNode == [kind |-> "None", size |-> 0, id |-> <<>>, data_start |-> 0]

\* Chunk::new / List::new
NewNode(kind, h, data_start) ==
    [kind |-> kind, size |-> h.size, id |-> h.id, data_start |-> data_start]

\* ChunkData::data_size, for Chunk and for List
DataSize(n) == n.size

\* a data_pad that never pads
DataPadNone(n) == 0

\* ChunkData::data_pad
DataPad(n) == IF DataSize(n) % 2 = 0 THEN 0 ELSE 1

\* ------------------------------------------------------------------------
\* ListIter: the list it iterates and the cached offset of the next header
\* ------------------------------------------------------------------------
NoIter == [live |-> FALSE, list |-> NoNode, next_position |-> 0]

\* ListIter::new
NewIter(list) == [live |-> TRUE, list |-> list, next_position |-> list.data_start]

\* a read_next that reads wherever the cursor is
SeekTargetCursor(cursor, next_position) == cursor

\* the offset read_next seeks to before it reads a header
SeekTarget(cursor, next_position) == next_position

\* a next_position that takes the whole list header off the declared size
NextAfterListLessHeader(data_start, size, pad) ==
    data_start + AddU32(size, pad) - ListHeaderSize

\* next_position after a nested list was read: the list_id was already read
NextAfterList(data_start, size, pad) == data_start + AddU32(size, pad) - FourccSize

\* next_position after a chunk was read
NextAfterChunk(data_start, size, pad) == data_start + AddU32(size, pad)

\* the offset at which ListIter::next stops
ListBound(list) == list.data_start + AddU32(list.size, DataPad(list)) - FourccSize

\* an end test that lets one more header be read
AtEndStrict(next_position, list) == next_position > ListBound(list)

\* ListIter::next's test for the end of the list
AtEnd(next_position, list) == next_position >= ListBound(list)

\* a read_next that goes past a nested outer header it has rejected
NestedRiffPassed(h, it) ==
    [res |-> "Malformed", node |-> NoNode, next_position |-> h.end,
     pos |-> h.end, at |-> h.end - ListHeaderSize]

\* a read_next that takes a nested outer header for a list
NestedRiffAsList(h, it) ==
    [res |-> "List", node |-> NewNode("List", h, h.end),
     next_position |-> h.end + h.size - FourccSize,
     pos |-> h.end, at |-> h.end - ListHeaderSize]

\* What read_next does with a header of the Riff variant
NestedRiff(h, it) ==
    [res |-> "Malformed", node |-> NoNode, next_position |-> it.next_position,
     pos |-> h.end, at |-> h.end - ListHeaderSize]

\* ListIter::read_next.  checks: the build panics on u32 overflow.
ReadNext(s, cursor, it, checks) ==
    LET at == SeekTarget(cursor, it.next_position)
        h  == HeaderRead(s, at)
        data_start == h.end
    IN  CASE h.variant = "Err" ->
               [res |-> "IoErr", node |-> NoNode, next_position |-> it.next_position,
                pos |-> at, at |-> at]
          [] h.variant = "List" ->
               LET list == NewNode("List", h, data_start)
               IN  IF checks /\ AddOverflows(h.size, DataPad(list))
                   THEN [res |-> "Panic", node |-> NoNode,
                         next_position |-> it.next_position, pos |-> data_start, at |-> at]
                   ELSE [res |-> "List", node |-> list,
                         next_position |-> NextAfterList(data_start, h.size, DataPad(list)),
                         pos |-> data_start, at |-> at]
          [] h.variant = "Chunk" ->
               LET chunk == NewNode("Chunk", h, data_start)
               IN  IF checks /\ AddOverflows(h.size, DataPad(chunk))
                   THEN [res |-> "Panic", node |-> NoNode,
                         next_position |-> it.next_position, pos |-> data_start, at |-> at]
                   ELSE [res |-> "Chunk", node |-> chunk,
                         next_position |-> NextAfterChunk(data_start, h.size, DataPad(chunk)),
                         pos |-> data_start, at |-> at]
          [] h.variant = "Riff" -> NestedRiff(h, it)

\* Iterator::next for ListIter
IterNext(s, cursor, it, checks) ==
    IF checks /\ AddOverflows(it.list.size, DataPad(it.list))
    THEN [res |-> "Panic", node |-> NoNode, next_position |-> it.next_position,
          pos |-> cursor, at |-> cursor]
    ELSE IF AtEnd(it.next_position, it.list)
    THEN [res |-> "None", node |-> NoNode, next_position |-> it.next_position,
          pos |-> cursor, at |-> cursor]
    ELSE ReadNext(s, cursor, it, checks)

Yielded(r) == r.res \in {"List", "Chunk"}

\* ------------------------------------------------------------------------
\* ChunkRead: the nodes' data reads (none of them seeks)
\* ------------------------------------------------------------------------
\* the offset at which read_data_struct starts to decode
StructReadStart(cursor, node) == cursor

\* ChunkRead::read_data_struct for a record of n bytes: the decoder reads
\* at the stream's cursor and restores the cursor when it fails
ReadDataStruct(s, cursor, node, n) ==
    LET at == StructReadStart(cursor, node)
    IN  IF Avail(s, at, n)
        THEN [res |-> "Ok", at |-> at, val |-> Bytes(s, at, n), pos |-> at + n]
        ELSE [res |-> "IoErr", at |-> at, val |-> <<>>, pos |-> at]

\* a length test that only rejects a buffer that is too small
SizeMatchesAtLeast(buflen, data_size) == buflen >= data_size

\* read_data's test of the buffer's length against data_size
SizeMatches(buflen, data_size) == buflen = data_size

\* ChunkRead::read_data with a buffer of buflen bytes: read_exact fills the
\* whole buffer.  val is what the call stored in the buffer.  A read_exact
\* that fails leaves the cursor where the reader's implementation leaves it:
\* at the end of the stream (eofpos) or where it was.
ReadData(s, cursor, node, buflen, eofpos) ==
    LET data_size == DataSize(node)
        data_pad  == DataPad(node)
    IN  IF ~SizeMatches(buflen, data_size)
        THEN [res |-> "SizeMismatch", at |-> cursor, val |-> <<>>, pos |-> cursor]
        ELSE IF ~Avail(s, cursor, buflen)
        THEN [res |-> "IoErr", at |-> cursor, val |-> <<>>, pos |-> eofpos]
        ELSE IF data_pad = 1 /\ ~Avail(s, cursor + buflen, 1)
        THEN [res |-> "IoErr", at |-> cursor, val |-> Bytes(s, cursor, buflen),
              pos |-> cursor + buflen]
        ELSE [res |-> "Ok", at |-> cursor, val |-> Bytes(s, cursor, buflen),
              pos |-> cursor + buflen + data_pad]

\* ChunkRead::read_data_vec: a buffer of exactly data_size bytes
ReadDataVec(s, cursor, node, eofpos) == ReadData(s, cursor, node, DataSize(node), eofpos)

\* ------------------------------------------------------------------------
\* The input streams
\* ------------------------------------------------------------------------
\* n payload bytes
Payload(n) == [i \in 1..n |-> i % ByteBase]

ChunkBytes(id, size, n) == id \o LE32(size) \o Payload(n)
ListBytes(size, id) == TagLIST \o LE32(size) \o id
RiffBytes(size, id) == TagRIFF \o LE32(size) \o id

\* chunks: declared size 0, odd with its pad byte, even, and the largest u32
ChunkEmpty == ChunkBytes(TagData, 0, 0)
ChunkOdd   == ChunkBytes(TagData, 1, 2)
ChunkEven  == ChunkBytes(TagData, 2, 2)
ChunkHuge  == ChunkBytes(TagData, U32Max, 0)
\* nested list headers: declared size below 4, a size that holds one ChunkOdd
\* or ChunkEven, and the largest u32
ListTiny == ListBytes(3, TagSub)
ListOne  == ListBytes(FourccSize + Len(ChunkOdd), TagSub)
ListHuge == ListBytes(U32Max, TagSub)
\* an outer header where a child is expected
RiffNested == RiffBytes(FourccSize + Len(ChunkOdd), TagForm)

Blocks == { ChunkEmpty, ChunkOdd, ChunkEven, ChunkHuge, ListTiny, ListOne, ListHuge,
            RiffNested }

RECURSIVE Bodies(_)
Bodies(k) ==
    IF k = 0 THEN { <<>> }
    ELSE LET shorter == Bodies(k - 1)
         IN  shorter \cup { b \o r : b \in Blocks, r \in shorter }

\* declared sizes of the root list laid out before a body: the body's length,
\* one more (odd), and the largest u32
RootSizes(body) == { FourccSize + Len(body), FourccSize + Len(body) + 1, U32Max }

\* streams whose first header is a RIFF header, a LIST header, a chunk header
Streams ==
    UNION { { RiffBytes(n, TagForm) \o body : n \in RootSizes(body) }
            : body \in Bodies(MaxBlocks) }
    \cup { ListBytes(FourccSize + Len(b), TagForm) \o b : b \in Blocks }
    \cup Blocks \cup { <<>> }

\* the streams on which data reads are interleaved with the iterators: a
\* root whose first child is a nested list or a chunk, with siblings after it
SharedBodies ==
    { a \o b \o c : a \in { ListOne, ChunkOdd },
                    b \in { ChunkOdd, ChunkEven, ChunkHuge },
                    c \in { ChunkEven, RiffNested, ListTiny } }

\* a chunk that declares the largest u32 and has all its data and its pad
\* byte in the stream, in a root of the largest even size.  Its data bytes
\* are all ByteBase - 2: a header decoded inside the data declares a large
\* even size.
ChunkHugeWhole ==
    TagData \o LE32(U32Max) \o [i \in 1..(U32Max + 1) |-> ByteBase - 2]
StreamHugeWhole == RiffBytes(U32Max - 1, TagForm) \o ChunkHugeWhole

SharedStreams ==
    { RiffBytes(FourccSize + Len(body) + odd, TagForm) \o body :
        body \in SharedBodies, odd \in {0, 1} }

\* the streams on which a chunk is read whole after it was yielded
ReadStreams == SharedStreams \cup { StreamHugeWhole }

\* A u32 that overflows when a pad byte is added can be decoded somewhere in
\* the stream.  On the other streams a build with overflow checks behaves as
\* one without, so it is drawn for these streams only.
CanOverflow(s) ==
    \E p \in 0..Len(s) : Avail(s, p, 4) /\ AddOverflows(U32LE(Bytes(s, p, 4)), 1)

\* a riff() that takes a LIST header for the outer header
RootVariantList == "List"

\* the header variant riff() requires
RootVariant == "Riff"

\* the data start of the root: the stream position after the outer header
RootDataStart(h) == h.end

\* ------------------------------------------------------------------------
\* The AVI layer (src/src/avi.rs): tags and record layouts
\* ------------------------------------------------------------------------
\* the most strl groups laid out in a file
MaxStreams == 3
\* the most siblings laid out after hdrl in the root list
MaxSiblings == 3
\* the most children of the movi list
MaxSamples == 3

\* avi::tag, in ASCII
TagAVI  == <<65, 86, 73, 32>>
TagHDRL == <<104, 100, 114, 108>>
TagAVIH == <<97, 118, 105, 104>>
TagSTRL == <<115, 116, 114, 108>>
TagSTRH == <<115, 116, 114, 104>>
TagSTRF == <<115, 116, 114, 102>>
TagVIDS == <<118, 105, 100, 115>>
TagAUDS == <<97, 117, 100, 115>>
TagMOVI == <<109, 111, 118, 105>>
DataVideoCompressed == <<100, 99>>
DataAudio == <<119, 98>>
\* ids that the parser does not look for: a text stream's type, a filler chunk
TagTXTS == <<116, 120, 116, 115>>
TagJUNK == <<74, 85, 78, 75>>

\* b'0', and the range of a u8
AsciiZero == 48
U8Mod == 256

\* a tag::stream that does not clamp the index
TagStreamUnclamped(stream_index, datatype) ==
    << AsciiZero + ((stream_index \div 10) % U8Mod),
       AsciiZero + ((stream_index % 10) % U8Mod),
       datatype[1], datatype[2] >>

\* avi::tag::stream
TagStream(stream_index, datatype) ==
    LET clamped == IF stream_index > 99 THEN 99 ELSE stream_index
    IN  << AsciiZero + ((clamped \div 10) % U8Mod),
           AsciiZero + ((clamped % 10) % U8Mod),
           datatype[1], datatype[2] >>

\* a little-endian u16
U16LE(b) == b[1] + b[2] * ByteBase
LE16(n) == << n % ByteBase, (n \div ByteBase) % ByteBase >>

Zeros(n) == [i \in 1..n |-> 0]

\* AviMainHeader: 14 u32, `streams` is the 7th
AviMainHeaderSize == 56
StreamsOffset == 24
\* AviStreamHeader: fcc_type, fcc_handler, flags, then the u16 priority
AviStreamHeaderSize == 56
FccTypeOffset == 0
PriorityOffset == 12
\* BitmapInfo: 11 fields of 4 bytes but planes and bit_count (u16)
BitmapInfoSize == 40

\* WaveFormat's magics (u16, little-endian) in the order they are tried
WaveMagics == << <<1, 0>>, <<254, 255>>, <<80, 0>>, <<85, 0>> >>
WaveVariants == << "Pcm", "Extensible", "Mpeg1", "Mp3" >>
\* WaveFormatEx without its last field `size`, which is #[br(try)]
WaveFormatExSize == 14
WaveFormatExTrySize == 2
\* the fields that follow `format` in each variant
WaveTrailers == << 0, 22, 22, 12 >>

\* WaveFormat::read at offset `at`: the variant whose magic is there, when
\* its fields can be read
\* a decoder that takes the first variant when no magic matches
KnownMagicsOrFirst(s, at) ==
    IF \E i \in DOMAIN WaveMagics : Avail(s, at, 2) /\ Bytes(s, at, 2) = WaveMagics[i]
    THEN { i \in DOMAIN WaveMagics : Avail(s, at, 2) /\ Bytes(s, at, 2) = WaveMagics[i] }
    ELSE { 1 }

\* the variants whose magic is the u16 at offset `at`
KnownMagics(s, at) ==
    { i \in DOMAIN WaveMagics : Avail(s, at, 2) /\ Bytes(s, at, 2) = WaveMagics[i] }

WaveFormatRead(s, at) ==
    LET known == KnownMagics(s, at)
    IN  IF known = {}
        THEN [res |-> "NoVariant", variant |-> "", at |-> at, pos |-> at]
        ELSE LET i == CHOOSE k \in known : TRUE
                 body == at + 2
                 with_size == WaveFormatExSize + WaveFormatExTrySize
                 need == IF WaveTrailers[i] = 0 THEN WaveFormatExSize
                         ELSE with_size + WaveTrailers[i]
                 read == IF WaveTrailers[i] = 0 /\ Avail(s, body, with_size)
                         THEN with_size ELSE need
             IN  IF ~Avail(s, body, need)
                 THEN [res |-> "IoErr", variant |-> "", at |-> at, pos |-> at]
                 ELSE [res |-> "Ok", variant |-> WaveVariants[i], at |-> at,
                       pos |-> body + read]

\* ------------------------------------------------------------------------
\* AviParser::new
\* ------------------------------------------------------------------------
\* the result of new: res is "Ok" or the error; decoded lists the indices of
\* the streams whose strf payload was decoded
NoAvi == [res |-> "none", tag |-> <<>>, at |-> 0, streams |-> 0, stream_info |-> <<>>,
          decoded |-> <<>>, movi |-> NoNode, pos |-> 0]

AviErr(res, tag, at, cursor) ==
    [NoAvi EXCEPT !.res = res, !.tag = tag, !.at = at, !.pos = cursor]

\* AviParser::eof_error
EofError(cursor) == AviErr("Eof", <<>>, 0, cursor)

\* AviParser::missing_error
MissingError(position, tag, cursor) == AviErr("Missing", tag, position, cursor)

\* an error item of the iteration, passed on by `?`
IterError(r) == AviErr(r.res, <<>>, r.at, r.pos)

\* the error of a failed record decode, passed on by `?`
DecodeError(d) == AviErr(d.res, <<>>, d.at, d.pos)

\* RiffParser::chunks: the lazy sequence of a list's children
Chunks(list) == NewIter(list)

\* position() of an iterator or a node: the stream position
Position(cursor) == cursor

\* RiffParser::read_data_struct on a node: decodes at the node's data start
ParserReadDataStruct(s, node, n) == ReadDataStruct(s, node.data_start, node, n)

\* `let x = e; body`, written Let([x \in { e } |-> body]): e is evaluated once
Let(f) == f[CHOOSE x \in DOMAIN f : TRUE]

\* a required tag that is taken as found whatever the id is
TagMatchesAny(id, tag) == TRUE

\* validate_tag's comparison
TagMatches(id, tag) == id = tag

\* `let RiffType::<kind>(x) = iter.next().ok_or_else(eof_error)?? else
\* { return missing_error(..) }; validate_tag(&x, tag)?`
Expect(s, cursor, it, chk, kind, tag) ==
    Let([r \in { IterNext(s, cursor, it, chk) } |->
        IF r.res = "None" THEN [ok |-> FALSE, err |-> EofError(r.pos)]
        ELSE IF ~Yielded(r) THEN [ok |-> FALSE, err |-> IterError(r)]
        ELSE IF r.res # kind \/ ~TagMatches(r.node.id, tag)
        THEN [ok |-> FALSE, err |-> MissingError(Position(r.pos), tag, r.pos)]
        ELSE [ok |-> TRUE, node |-> r.node, pos |-> r.pos,
              it |-> [it EXCEPT !.next_position = r.next_position]]])

\* a stream table that also takes the streams of other types, as video
IsVideoOrOther(fcc_type) == fcc_type # TagAUDS

\* `match stream_header.fcc_type`: the arm for tag::VIDS
IsVideo(fcc_type) == fcc_type = TagVIDS

\* a loop that stops after the first stream
LoopDoneAtOne(stream_index, streams) == stream_index >= streams \/ stream_index >= 1

\* the end of `for stream_index in 0..main_header.streams`
LoopDone(stream_index, streams) == stream_index >= streams

\* `for stream_index in 0..main_header.streams { .. }`
RECURSIVE ReadStreamTable(_, _, _, _, _, _, _, _)
ReadStreamTable(s, cursor, hdrl_iter, chk, stream_index, streams, stream_info, decoded) ==
    IF LoopDone(stream_index, streams)
    THEN [ok |-> TRUE, pos |-> cursor, stream_info |-> stream_info, decoded |-> decoded]
    ELSE
    Let([strl \in { Expect(s, cursor, hdrl_iter, chk, "List", TagSTRL) } |->
    IF ~strl.ok THEN strl ELSE
    Let([strh \in { Expect(s, strl.pos, Chunks(strl.node), chk, "Chunk", TagSTRH) } |->
    IF ~strh.ok THEN strh ELSE
    Let([sh \in { ParserReadDataStruct(s, strh.node, AviStreamHeaderSize) } |->
    IF sh.res # "Ok" THEN [ok |-> FALSE, err |-> DecodeError(sh)] ELSE
    Let([strf \in { Expect(s, sh.pos, strh.it, chk, "Chunk", TagSTRF) } |->
    IF ~strf.ok THEN strf ELSE
    Let([fcc_type \in { SubSeq(sh.val, FccTypeOffset + 1, FccTypeOffset + 4) } |->
    Let([priority \in { U16LE(SubSeq(sh.val, PriorityOffset + 1, PriorityOffset + 2)) } |->
        IF IsVideo(fcc_type)
        THEN Let([bi \in { ParserReadDataStruct(s, strf.node, BitmapInfoSize) } |->
                 IF bi.res # "Ok" THEN [ok |-> FALSE, err |-> DecodeError(bi)]
                 ELSE ReadStreamTable(s, bi.pos, strl.it, chk, stream_index + 1, streams,
                        Append(stream_info,
                               [kind |-> "Video", priority |-> priority,
                                stream_id |-> TagStream(stream_index, DataVideoCompressed),
                                fcc_type |-> fcc_type, format |-> "BitmapInfo"]),
                        Append(decoded, stream_index))])
        ELSE IF fcc_type = TagAUDS
        THEN Let([wf \in { WaveFormatRead(s, strf.node.data_start) } |->
                 IF wf.res # "Ok" THEN [ok |-> FALSE, err |-> DecodeError(wf)]
                 ELSE ReadStreamTable(s, wf.pos, strl.it, chk, stream_index + 1, streams,
                        Append(stream_info,
                               [kind |-> "Audio", priority |-> priority,
                                stream_id |-> TagStream(stream_index, DataAudio),
                                fcc_type |-> fcc_type, format |-> wf.variant]),
                        Append(decoded, stream_index))])
        ELSE ReadStreamTable(s, strf.pos, strl.it, chk, stream_index + 1, streams,
                             stream_info, decoded)])])])])])])

\* a search that takes the first node whose id is movi, list or chunk
IsMoviAnyKind(r) == r.node.id = TagMOVI

\* find_map's match: a list whose id is movi
IsMovi(r) == r.res = "List" /\ r.node.id = TagMOVI

\* `avi_iter.find_map(..).ok_or_else(eof_error)??`
RECURSIVE FindMovi(_, _, _, _)
FindMovi(s, cursor, it, chk) ==
    Let([r \in { IterNext(s, cursor, it, chk) } |->
        IF r.res = "None" THEN [ok |-> FALSE, err |-> EofError(r.pos)]
        ELSE IF ~Yielded(r) THEN [ok |-> FALSE, err |-> IterError(r)]
        ELSE IF IsMovi(r) THEN [ok |-> TRUE, node |-> r.node, pos |-> r.pos]
        ELSE FindMovi(s, r.pos, [it EXCEPT !.next_position = r.next_position], chk)])

\* AviParser::new on a parser whose reader is at `cursor`
AviParserNew(s, cursor, chk) ==
    Let([h \in { HeaderRead(s, cursor) } |->
    IF h.variant = "Err" THEN AviErr("IoErr", <<>>, cursor, cursor)
    ELSE IF h.variant # RootVariant THEN AviErr("Malformed", <<>>, cursor, h.end)
    ELSE
    Let([riff \in { NewNode("List", h, RootDataStart(h)) } |->
    IF ~TagMatches(riff.id, TagAVI) THEN MissingError(Position(h.end), TagAVI, h.end)
    ELSE
    Let([hdrl \in { Expect(s, h.end, Chunks(riff), chk, "List", TagHDRL) } |->
    IF ~hdrl.ok THEN hdrl.err ELSE
    Let([avih \in { Expect(s, hdrl.pos, Chunks(hdrl.node), chk, "Chunk", TagAVIH) } |->
    IF ~avih.ok THEN avih.err ELSE
    Let([mh \in { ParserReadDataStruct(s, avih.node, AviMainHeaderSize) } |->
    IF mh.res # "Ok" THEN DecodeError(mh) ELSE
    Let([streams \in { U32LE(SubSeq(mh.val, StreamsOffset + 1, StreamsOffset + 4)) } |->
    Let([table \in { ReadStreamTable(s, mh.pos, avih.it, chk, 0, streams, <<>>, <<>>) } |->
    IF ~table.ok THEN table.err ELSE
    Let([movi \in { FindMovi(s, table.pos, hdrl.it, chk) } |->
    IF ~movi.ok THEN movi.err
    ELSE [NoAvi EXCEPT !.res = "Ok", !.streams = streams,
                       !.stream_info = table.stream_info,
                       !.decoded = table.decoded,
                       !.movi = movi.node, !.pos = movi.pos]])])])])])])])])

\* ------------------------------------------------------------------------
\* AviParser::find_best_stream
\* ------------------------------------------------------------------------
\* a conversion that takes every entry for the kind asked for
TryFromAny(kind, entry) == TRUE

\* TryFrom<&StreamInfo> for &AudioStream / &VideoStream
TryFrom(kind, entry) == entry.kind = kind

\* Iterator::max_by_key over the table positions in `at`: of two positions
\* with keys that compare equal the later one is kept
RECURSIVE MaxByKey(_, _, _)
MaxByKey(table, at, best) ==
    IF at = <<>> THEN best
    ELSE LET y == Head(at)
         IN  MaxByKey(table, Tail(at),
                      IF best # 0 /\ table[best].priority > table[y].priority
                      THEN best ELSE y)

\* the table position find_best_stream returns for a kind, 0 for None
FindBestStream(table, kind) ==
    MaxByKey(table,
             SelectSeq([i \in DOMAIN table |-> i], LAMBDA i : TryFrom(kind, table[i])),
             0)

\* a filter that keeps every node with the stream's id, list or chunk
IsSampleAnyKind(r, stream_id) == Yielded(r) /\ r.node.id = stream_id

\* stream_chunks' filter: `if let Ok(RiffType::Chunk(chunk)) = result &&
\* chunk.id() == stream_id`; every other item, an Err too, is rejected
IsSample(r, stream_id) == r.res = "Chunk" /\ r.node.id = stream_id

\* stream_chunks(stream_id, movi): the children of movi, filtered
StreamChunks(movi) == Chunks(movi)

\* Filter::next over the iterator `it`: the next item the filter keeps.  The
\* filter asks the iterator again after every item it rejects; `seen` holds
\* the (cursor, next_position) pairs a rejected item left behind, and when
\* one comes back the loop has no end: the call never returns ("Hang").
RECURSIVE FilterNext(_, _, _, _, _, _)
FilterNext(s, cursor, it, chk, stream_id, seen) ==
    Let([r \in { IterNext(s, cursor, it, chk) } |->
        IF r.res \in { "None", "Panic" }
        THEN [res |-> r.res, node |-> NoNode, at |-> r.at, it |-> it, pos |-> r.pos]
        ELSE IF IsSample(r, stream_id)
        THEN [res |-> "Item", node |-> r.node, at |-> r.at,
              it |-> [it EXCEPT !.next_position = r.next_position], pos |-> r.pos]
        ELSE IF << r.pos, r.next_position >> \in seen
        THEN [res |-> "Hang", node |-> NoNode, at |-> r.at,
              it |-> [it EXCEPT !.next_position = r.next_position], pos |-> r.pos]
        ELSE FilterNext(s, r.pos, [it EXCEPT !.next_position = r.next_position], chk,
                        stream_id, seen \cup { << r.pos, r.next_position >> })])

\* ------------------------------------------------------------------------
\* AVI files: a description of what is laid out, and its bytes
\* ------------------------------------------------------------------------
\* a chunk with its data (and its pad byte), a list with its children
ChunkOf(id, data) ==
    id \o LE32(Len(data)) \o data \o (IF Len(data) % 2 = 1 THEN <<0>> ELSE <<>>)
ListOf(id, body) == ListBytes(FourccSize + Len(body), id) \o body

RECURSIVE Flatten(_)
Flatten(seqs) == IF seqs = <<>> THEN <<>> ELSE Head(seqs) \o Flatten(Tail(seqs))

RECURSIVE SeqsUpTo(_, _)
SeqsUpTo(S, k) ==
    IF k = 0 THEN { <<>> }
    ELSE LET shorter == SeqsUpTo(S, k - 1)
         IN  shorter \cup { <<x>> \o r : x \in S, r \in { q \in shorter : Len(q) = k - 1 } }

AviMainHeaderBytes(streams) ==
    Zeros(StreamsOffset) \o LE32(streams) \o Zeros(AviMainHeaderSize - StreamsOffset - 4)
AviStreamHeaderBytes(fcc_type, priority) ==
    fcc_type \o Zeros(PriorityOffset - 4) \o LE16(priority)
             \o Zeros(AviStreamHeaderSize - PriorityOffset - 2)
BitmapInfoBytes == LE32(BitmapInfoSize) \o Zeros(BitmapInfoSize - 4)
\* a WaveFormat with every field of its variant; "unknown" has a magic that
\* no variant has
WaveFormatBytes(fmt) ==
    CASE fmt = "Pcm"        -> WaveMagics[1] \o Zeros(16)
      [] fmt = "Extensible" -> WaveMagics[2] \o Zeros(16 + WaveTrailers[2])
      [] fmt = "Mpeg1"      -> WaveMagics[3] \o Zeros(16 + WaveTrailers[3])
      [] fmt = "Mp3"        -> WaveMagics[4] \o Zeros(16 + WaveTrailers[4])
      [] fmt = "unknown_hi" -> <<85, 1>> \o Zeros(16 + WaveTrailers[4])
      [] OTHER              -> <<2, 0>> \o Zeros(16)

\* the formats whose leading u16 is no magic of WaveFormat: 0x0002, and
\* 0x0155, which has the low byte of Mp3's
UnknownFormats == { "unknown", "unknown_hi" }

\* a strl group: its stream's type, priority and audio format, and how the
\* group is laid out ("ok": LIST strl holding chunk strh then chunk strf)
Group(fcc_type, priority, fmt, shape) ==
    [fcc_type |-> fcc_type, priority |-> priority, fmt |-> fmt, shape |-> shape]

StrhOf(g) == ChunkOf(TagSTRH, AviStreamHeaderBytes(g.fcc_type, g.priority))
StrfData(g) ==
    IF g.fcc_type = TagVIDS THEN BitmapInfoBytes
    ELSE IF g.fcc_type = TagAUDS THEN WaveFormatBytes(g.fmt)
    ELSE <<1, 2>>
StrfOf(g) == ChunkOf(TagSTRF, StrfData(g))

GroupBytes(g) ==
    CASE g.shape = "ok"         -> ListOf(TagSTRL, StrhOf(g) \o StrfOf(g))
      [] g.shape = "chunk_strl" -> ChunkOf(TagSTRL, Zeros(4))
      [] g.shape = "list_other" -> ListOf(TagSub, StrhOf(g) \o StrfOf(g))
      [] g.shape = "no_strh"    -> ListOf(TagSTRL, <<>>)
      [] g.shape = "strh_other" ->
           ListOf(TagSTRL, ChunkOf(TagJUNK, AviStreamHeaderBytes(g.fcc_type, g.priority))
                           \o StrfOf(g))
      [] g.shape = "strh_list"  -> ListOf(TagSTRL, ListOf(TagSTRH, <<>>) \o StrfOf(g))
      [] g.shape = "no_strf"    -> ListOf(TagSTRL, StrhOf(g))
      [] g.shape = "strf_other" -> ListOf(TagSTRL, StrhOf(g) \o ChunkOf(TagJUNK, StrfData(g)))
      [] g.shape = "strf_list"  -> ListOf(TagSTRL, StrhOf(g) \o ListOf(TagSTRF, <<>>))

Shapes == { "ok", "chunk_strl", "list_other", "no_strh", "strh_other", "strh_list",
            "no_strf", "strf_other", "strf_list" }

\* the first child of hdrl
AvihBytes(f) ==
    CASE f.avih = "avih"        -> ChunkOf(TagAVIH, AviMainHeaderBytes(f.n))
      [] f.avih = "chunk_other" -> ChunkOf(TagJUNK, AviMainHeaderBytes(f.n))
      [] f.avih = "list_avih"   -> ListOf(TagAVIH, <<>>)
      [] f.avih = "absent"      -> <<>>

HdrlBody(f) ==
    IF f.avih = "absent" THEN <<>>
    ELSE AvihBytes(f) \o Flatten([i \in DOMAIN f.groups |-> GroupBytes(f.groups[i])])
         \o (IF f.hdrl_tail = "junk" THEN ChunkOf(TagJUNK, Zeros(2)) ELSE <<>>)

\* the first child of the root
HeadBytes(f) ==
    CASE f.head = "hdrl"       -> ListOf(TagHDRL, HdrlBody(f))
      [] f.head = "list_other" -> ListOf(TagSub, HdrlBody(f))
      [] f.head = "chunk_hdrl" -> ChunkOf(TagHDRL, Zeros(4))
      [] f.head = "absent"     -> <<>>

\* a sibling after hdrl: the movi list with one sample, a chunk whose id is
\* movi, another list (with a movi list nested in it), a filler chunk
SiblingBytes(k) ==
    CASE k = "list_movi"   -> ListOf(TagMOVI, ChunkOf(TagStream(0, DataVideoCompressed), <<1, 2>>))
      [] k = "chunk_movi"  -> ChunkOf(TagMOVI, <<1, 2>>)
      [] k = "list_other"  -> ListOf(TagSub, ListOf(TagMOVI, <<>>))
      [] k = "chunk_other" -> ChunkOf(TagJUNK, <<1, 2>>)

Siblings == { "list_movi", "chunk_movi", "list_other", "chunk_other" }

\* what the root declares after its last sibling: nothing, a header of which
\* the stream holds four bytes only, an outer header
EndingBytes(e) ==
    CASE e = "end"   -> <<>>
      [] e = "trunc" -> TagJUNK
      [] e = "riff"  -> RiffBytes(FourccSize, TagAVI)
EndingDeclared(e) == IF e = "trunc" THEN ChunkHeaderSize ELSE Len(EndingBytes(e))

\* a child of the movi list: a video sample, an audio sample of odd size, a
\* rec list holding a video sample, a list whose id is a sample id, a filler
TagREC == << 114, 101, 99, 32 >>
SampleBytes(k) ==
    CASE k = "00dc"      -> ChunkOf(TagStream(0, DataVideoCompressed), <<1, 2>>)
      [] k = "01wb"      -> ChunkOf(TagStream(1, DataAudio), <<3>>)
      [] k = "rec"       -> ListOf(TagREC, ChunkOf(TagStream(0, DataVideoCompressed), <<1, 2>>))
      [] k = "list_00dc" -> ListOf(TagStream(0, DataVideoCompressed),
                                   ChunkOf(TagStream(1, DataAudio), <<3>>))
      [] k = "junk"      -> ChunkOf(TagJUNK, <<>>)

SampleKinds == { "00dc", "01wb", "rec", "list_00dc", "junk" }

\* the movi list: its children, and what it declares after the last of them
MoviBody(m) == Flatten([i \in DOMAIN m.samples |-> SampleBytes(m.samples[i])])
MoviBytes(m) ==
    ListBytes(FourccSize + Len(MoviBody(m)) + EndingDeclared(m.ending), TagMOVI)
    \o MoviBody(m) \o EndingBytes(m.ending)

\* the movi list of the files that vary something else: one video sample
OneSample == [samples |-> << "00dc" >>, ending |-> "end"]

\* a sibling after hdrl in the file f
SiblingBytesOf(f, k) == IF k = "list_movi" THEN MoviBytes(f.movi) ELSE SiblingBytes(k)

\* the bytes the movi list declares and the stream does not hold
MoviShortfall(f) == EndingDeclared(f.movi.ending) - Len(EndingBytes(f.movi.ending))

RootBody(f) ==
    IF f.head = "absent" THEN <<>>
    ELSE HeadBytes(f) \o Flatten([i \in DOMAIN f.tail |-> SiblingBytesOf(f, f.tail[i])])

\* the bytes of the file a description describes
AviBytes(f) ==
    IF f.head = "absent" THEN RiffBytes(FourccSize, f.form)
    ELSE RiffBytes(FourccSize + Len(RootBody(f)) + EndingDeclared(f.ending)
                      + MoviShortfall(f), f.form)
         \o RootBody(f) \o EndingBytes(f.ending)

NoFile == [form |-> <<>>, head |-> "", avih |-> "", n |-> 0, groups |-> <<>>,
           hdrl_tail |-> "", tail |-> <<>>, ending |-> "",
           movi |-> [samples |-> <<>>, ending |-> ""]]

\* a file with one video stream and its movi list
BaseFile ==
    [form |-> TagAVI, head |-> "hdrl", avih |-> "avih", n |-> 1,
     groups |-> << Group(TagVIDS, 1, "", "ok") >>,
     hdrl_tail |-> "none", tail |-> << "list_movi" >>, ending |-> "end",
     movi |-> OneSample]

\* the well-laid-out groups: video, audio and text streams, two priorities
GoodGroups ==
    { Group(t, p, IF t = TagAUDS THEN "Pcm" ELSE "", "ok") :
        t \in { TagVIDS, TagAUDS }, p \in { 1, ByteBase + 1 } }
    \cup { Group(TagTXTS, ByteBase + 2, "", "ok") }

\* the groups that are not LIST strl (chunk strh, chunk strf), and the audio
\* formats
OddGroups ==
    { Group(TagVIDS, 1, "", sh) : sh \in Shapes \ { "ok" } }
    \cup { Group(TagAUDS, 1, fmt, "ok") : fmt \in { "Extensible", "Mpeg1", "Mp3" } \cup UnknownFormats }

\* the places of the tag chain, each right, of the wrong kind, with the wrong
\* id, or absent
ChainFiles ==
    { [BaseFile EXCEPT !.form = fo, !.head = hd, !.avih = av] :
        fo \in { TagAVI, TagForm },
        hd \in { "hdrl", "list_other", "chunk_hdrl", "absent" },
        av \in { "avih", "chunk_other", "list_avih", "absent" } }

\* n streams declared, any groups laid out, hdrl ending there or going on
TableFiles ==
    { [BaseFile EXCEPT !.n = n, !.groups = gs, !.hdrl_tail = ht] :
        n \in 0..MaxStreams, gs \in SeqsUpTo(GoodGroups, MaxStreams),
        ht \in { "none", "junk" } }

OddGroupFiles ==
    { [BaseFile EXCEPT !.n = Len(gs), !.groups = gs] :
        gs \in { <<g>> : g \in OddGroups }
               \cup { << Group(TagAUDS, 1, "Pcm", "ok"), g >> : g \in OddGroups } }

\* any siblings after hdrl, and what the root declares after them
TailFiles ==
    { [BaseFile EXCEPT !.tail = t, !.ending = e] :
        t \in SeqsUpTo(Siblings, MaxSiblings), e \in { "end", "trunc", "riff" } }

AviFiles == ChainFiles \cup TableFiles \cup OddGroupFiles \cup TailFiles

\* any children in the movi list, and what the list declares after them
MoviFiles ==
    { [BaseFile EXCEPT !.movi = [samples |-> sm, ending |-> e]] :
        sm \in SeqsUpTo(SampleKinds, MaxSamples), e \in { "end", "trunc", "riff" } }

\* ------------------------------------------------------------------------
\* State
\* ------------------------------------------------------------------------
VARIABLES
    stream,     \* the bytes of the reader given to RiffParser::new
    pos,        \* the reader's cursor
    checks,     \* the build panics on integer overflow
    panicked,   \* the program has panicked
    root,       \* the List riff() returned
    it1,        \* an iterator over root
    cur1,       \* the node it1 yielded last
    it2,        \* an iterator over a list that it1 yielded
    cur2,       \* the node it2 yielded last
    log1,       \* the nodes it1 has yielded, each with its header's offset
    borrowed,   \* the number of outstanding RefMut guards on the reader
    file,       \* the description of the AVI file the stream holds
    avi,        \* what AviParser::new returned
    best,       \* what find_best_stream returned last
    sid,        \* an index and a data type, and what tag::stream made of them
    smp,        \* a sample sequence movi_chunks returned, and what it has yielded
    last        \* the last operation: its kind, where it read, its result

aviVars == <<file, avi, best, sid, smp>>

vars == <<stream, pos, checks, panicked, root, it1, cur1, it2, cur2, log1, borrowed,
          last, file, avi, best, sid, smp>>

NoBest == [kind |-> "", at |-> 0]
NoSid == [index |-> 0, datatype |-> <<>>, id |-> <<>>]
NoSmp == [live |-> FALSE, stream_id |-> <<>>, it |-> NoIter, log |-> <<>>, res |-> ""]

NoOp == [op |-> "none", at |-> 0, res |-> "", node |-> NoNode, val |-> <<>>,
         buflen |-> 0, again |-> FALSE]

\* the errors an advance of a ListIter returns
IterErrors == { "IoErr", "Malformed" }

InitOn(streams) ==
    /\ stream \in streams
    /\ pos = 0
    /\ checks \in BOOLEAN
    /\ checks => CanOverflow(stream)
    /\ panicked = FALSE
    /\ root = NoNode
    /\ it1 = NoIter
    /\ cur1 = NoNode
    /\ it2 = NoIter
    /\ cur2 = NoNode
    /\ log1 = <<>>
    /\ borrowed = 0
    /\ last = NoOp
    /\ file = NoFile
    /\ avi = NoAvi
    /\ best = NoBest
    /\ sid = NoSid
    /\ smp = NoSmp

Init == InitOn(SharedStreams)

InitWalk == InitOn(Streams)

InitRead == InitOn(ReadStreams)

\* RefCell::borrow_mut on the shared reader: fails when a guard is outstanding
AlreadyBorrowed(b) == b > 0
BorrowMut(b) == b + 1

\* a guard that outlives the operation that took it
DropGuardNever(b) == b

\* the RefMut is a local of the operation: dropped when the operation returns
\* or unwinds
DropGuard(b) == b - 1

\* the panic of a borrow_mut that finds the reader borrowed
BorrowPanic(op) ==
    /\ panicked' = TRUE
    /\ last' = [NoOp EXCEPT !.op = op, !.res = "BorrowPanic"]
    /\ UNCHANGED <<aviVars, stream, pos, checks, root, it1, cur1, it2, cur2, log1, borrowed>>

\* Iterator::next reaches read_next, where the borrow is taken
CallsReadNext(it, chk) ==
    /\ ~(chk /\ AddOverflows(it.list.size, DataPad(it.list)))
    /\ ~AtEnd(it.next_position, it.list)

\* RiffParser::riff
Riff ==
    /\ ~panicked
    /\ root.kind = "None"
    /\ IF AlreadyBorrowed(borrowed) THEN BorrowPanic("riff")
       ELSE /\ borrowed' = DropGuard(BorrowMut(borrowed))
            /\ LET h == HeaderRead(stream, pos)
               IN  CASE h.variant = RootVariant ->
                          /\ root' = NewNode("List", h, RootDataStart(h))
                          /\ pos' = h.end
                          /\ last' = [NoOp EXCEPT !.op = "riff", !.at = pos, !.res = "Ok",
                                                  !.node = NewNode("List", h, RootDataStart(h))]
                     [] h.variant = "Err" ->
                          /\ UNCHANGED <<root, pos>>
                          /\ last' = [NoOp EXCEPT !.op = "riff", !.at = pos, !.res = "IoErr"]
                     [] OTHER ->
                          /\ UNCHANGED root
                          /\ pos' = h.end
                          /\ last' = [NoOp EXCEPT !.op = "riff", !.at = pos, !.res = "Malformed"]
            /\ UNCHANGED <<aviVars, stream, checks, panicked, it1, cur1, it2, cur2, log1>>

\* List::iter on the root
Iter1 ==
    /\ ~panicked
    /\ root.kind = "List"
    /\ it1' = NewIter(root)
    /\ cur1' = NoNode
    /\ log1' = <<>>
    /\ last' = [NoOp EXCEPT !.op = "iter1"]
    /\ UNCHANGED <<aviVars, stream, pos, checks, panicked, root, it2, cur2, borrowed>>

\* Iterator::next on the root's iterator
Next1 ==
    /\ ~panicked
    /\ it1.live
    /\ IF CallsReadNext(it1, checks) /\ AlreadyBorrowed(borrowed) THEN BorrowPanic("next1")
       ELSE /\ borrowed' = IF CallsReadNext(it1, checks)
                          THEN DropGuard(BorrowMut(borrowed)) ELSE borrowed
            /\ LET r == IterNext(stream, pos, it1, checks)
               IN  /\ it1' = [it1 EXCEPT !.next_position = r.next_position]
                   /\ pos' = r.pos
                   /\ panicked' = (r.res = "Panic")
                   /\ cur1' = IF Yielded(r) THEN r.node ELSE cur1
                   /\ log1' = IF Yielded(r) THEN Append(log1, [at |-> r.at, node |-> r.node])
                              ELSE log1
                   /\ last' = [NoOp EXCEPT !.op = "next1", !.at = r.at, !.res = r.res,
                                           !.node = r.node,
                                           !.again = (last.op = "next1"
                                                      /\ last.res \in IterErrors)]
            /\ UNCHANGED <<aviVars, stream, checks, root, it2, cur2>>

\* List::iter on the list that the root's iterator yielded
Iter2 ==
    /\ ~panicked
    /\ cur1.kind = "List"
    /\ it2' = NewIter(cur1)
    /\ cur2' = NoNode
    /\ last' = [NoOp EXCEPT !.op = "iter2"]
    /\ UNCHANGED <<aviVars, stream, pos, checks, panicked, root, it1, cur1, log1, borrowed>>

\* Iterator::next on the nested iterator
Next2 ==
    /\ ~panicked
    /\ it2.live
    /\ IF CallsReadNext(it2, checks) /\ AlreadyBorrowed(borrowed) THEN BorrowPanic("next2")
       ELSE /\ borrowed' = IF CallsReadNext(it2, checks)
                          THEN DropGuard(BorrowMut(borrowed)) ELSE borrowed
            /\ LET r == IterNext(stream, pos, it2, checks)
               IN  /\ it2' = [it2 EXCEPT !.next_position = r.next_position]
                   /\ pos' = r.pos
                   /\ panicked' = (r.res = "Panic")
                   /\ cur2' = IF Yielded(r) THEN r.node ELSE cur2
                   /\ last' = [NoOp EXCEPT !.op = "next2", !.at = r.at, !.res = r.res,
                                           !.node = r.node,
                                           !.again = (last.op = "next2"
                                                      /\ last.res \in IterErrors)]
            /\ UNCHANGED <<aviVars, stream, checks, root, it1, cur1, log1>>

\* the nodes the program holds
LiveNodes == { n \in {root, cur1, cur2} : n.kind # "None" }

\* sizes in bytes of the records read with read_data_struct
StructSizes == { 4 }

\* where a failed read_exact may leave the cursor
FailedReadPositions(s, cursor) == { p \in {cursor, Len(s)} : p >= cursor }

\* ChunkRead::read_data_struct on a node
DoReadDataStruct ==
    /\ ~panicked
    /\ IF AlreadyBorrowed(borrowed) THEN BorrowPanic("struct")
       ELSE /\ borrowed' = DropGuard(BorrowMut(borrowed))
            /\ \E node \in LiveNodes, n \in StructSizes :
                 LET r == ReadDataStruct(stream, pos, node, n)
                 IN  /\ pos' = r.pos
                     /\ last' = [NoOp EXCEPT !.op = "struct", !.at = r.at, !.res = r.res,
                                             !.node = node, !.val = r.val]
            /\ UNCHANGED <<aviVars, stream, checks, panicked, root, it1, cur1, it2, cur2, log1>>

\* the lengths of the buffers given to read_data: data_size, one byte
\* shorter, one byte longer
BufferLengths(node) ==
    { n \in { DataSize(node) - 1, DataSize(node), DataSize(node) + 1 } : n >= 0 }

\* ChunkRead::read_data on a node, with a buffer of the right or a wrong length
DoReadData ==
    /\ ~panicked
    /\ IF AlreadyBorrowed(borrowed) THEN BorrowPanic("data")
       ELSE /\ borrowed' = DropGuard(BorrowMut(borrowed))
            /\ \E node \in LiveNodes, eofpos \in FailedReadPositions(stream, pos) :
               \E buflen \in BufferLengths(node) :
                 LET r == ReadData(stream, pos, node, buflen, eofpos)
                 IN  /\ pos' = r.pos
                     /\ last' = [NoOp EXCEPT !.op = "data", !.at = r.at, !.res = r.res,
                                             !.node = node, !.val = r.val, !.buflen = buflen]
            /\ UNCHANGED <<aviVars, stream, checks, panicked, root, it1, cur1, it2, cur2, log1>>

\* ChunkRead::read_data_vec on a node
DoReadDataVec ==
    /\ ~panicked
    /\ IF AlreadyBorrowed(borrowed) THEN BorrowPanic("vec")
       ELSE /\ borrowed' = DropGuard(BorrowMut(borrowed))
            /\ \E node \in LiveNodes, eofpos \in FailedReadPositions(stream, pos) :
                 LET r == ReadDataVec(stream, pos, node, eofpos)
                 IN  /\ pos' = r.pos
                     /\ last' = [NoOp EXCEPT !.op = "vec", !.at = r.at, !.res = r.res,
                                             !.node = node, !.val = r.val,
                                             !.buflen = DataSize(node)]
            /\ UNCHANGED <<aviVars, stream, checks, panicked, root, it1, cur1, it2, cur2, log1>>

\* opening the root and walking the tree
NextWalk ==
    \/ Riff
    \/ Iter1
    \/ Next1
    \/ Iter2
    \/ Next2

\* walking the tree and reading the nodes' data, in any order
Next ==
    \/ Riff
    \/ Iter1
    \/ Next1
    \/ Iter2
    \/ Next2
    \/ DoReadDataStruct
    \/ DoReadData
    \/ DoReadDataVec

\* walking the root and reading its children's data whole
NextRead ==
    \/ Riff
    \/ Iter1
    \/ Next1
    \/ DoReadData
    \/ DoReadDataVec

\* every operation, on the streams with siblings after a nested list
Spec == Init /\ [][Next]_vars

\* the root's iterator and the whole-data reads, also on the stream whose
\* chunk declares the largest u32
SpecRead == InitRead /\ [][NextRead]_vars

\* the tree walk alone, on every stream of at most MaxBlocks blocks
SpecWalk == InitWalk /\ [][NextWalk]_vars

\* ------------------------------------------------------------------------
\* The AVI layer's operations
\* ------------------------------------------------------------------------
\* the data types tag::stream is called with
DataTypes == { DataVideoCompressed, DataAudio }

\* An AVI file with a fresh parser on it, or an index and a data type for
\* tag::stream.  No size in an AVI file is the largest u32, so a build with
\* overflow checks behaves as one without.
InitAvi ==
    /\ \/ /\ file \in AviFiles
          /\ sid = NoSid
       \/ /\ file = NoFile
          /\ sid \in { [index |-> i, datatype |-> d, id |-> <<>>] :
                          i \in 0..U32Max, d \in DataTypes }
    /\ stream = IF file = NoFile THEN <<>> ELSE AviBytes(file)
    /\ pos = 0
    /\ checks = FALSE
    /\ panicked = FALSE
    /\ root = NoNode
    /\ it1 = NoIter
    /\ cur1 = NoNode
    /\ it2 = NoIter
    /\ cur2 = NoNode
    /\ log1 = <<>>
    /\ borrowed = 0
    /\ last = NoOp
    /\ avi = NoAvi
    /\ best = NoBest
    /\ smp = NoSmp

\* AviParser::new(RiffParser::new(reader))
New ==
    /\ ~panicked
    /\ file # NoFile
    /\ avi.res = "none"
    /\ LET r == AviParserNew(stream, pos, checks)
       IN  /\ avi' = r
           /\ pos' = r.pos
           /\ panicked' = (r.res = "Panic")
    /\ UNCHANGED <<stream, checks, root, it1, cur1, it2, cur2, log1, borrowed, last,
                   file, best, sid, smp>>

\* AviParser::find_best_stream::<AudioStream> / ::<VideoStream>
DoFindBestStream ==
    /\ avi.res = "Ok"
    /\ \E kind \in { "Audio", "Video" } :
         best' = [kind |-> kind, at |-> FindBestStream(avi.stream_info, kind)]
    /\ UNCHANGED <<stream, pos, checks, panicked, root, it1, cur1, it2, cur2, log1,
                   borrowed, last, file, avi, sid, smp>>

\* avi::tag::stream
DoTagStream ==
    /\ sid.datatype # <<>>
    /\ sid.id = <<>>
    /\ sid' = [sid EXCEPT !.id = TagStream(sid.index, sid.datatype)]
    /\ UNCHANGED <<stream, pos, checks, panicked, root, it1, cur1, it2, cur2, log1,
                   borrowed, last, file, avi, best, smp>>

NextAvi ==
    \/ New
    \/ DoFindBestStream
    \/ DoTagStream

\* the AVI layer on the files of AviFiles, and tag::stream on every u32
SpecAvi == InitAvi /\ [][NextAvi]_vars

\* the stream ids movi_chunks is asked for
SampleIds == { TagStream(0, DataVideoCompressed), TagStream(1, DataAudio) }

\* An AVI file with any children in its movi list, and a fresh parser on it
InitMovi ==
    /\ file \in MoviFiles
    /\ stream = AviBytes(file)
    /\ pos = 0
    /\ checks = FALSE
    /\ panicked = FALSE
    /\ root = NoNode
    /\ it1 = NoIter
    /\ cur1 = NoNode
    /\ it2 = NoIter
    /\ cur2 = NoNode
    /\ log1 = <<>>
    /\ borrowed = 0
    /\ last = NoOp
    /\ avi = NoAvi
    /\ best = NoBest
    /\ sid = NoSid
    /\ smp = NoSmp

\* AviParser::movi_chunks(stream_id) = stream_chunks(stream_id, self.movi)
MoviChunks ==
    /\ avi.res = "Ok"
    /\ ~smp.live
    /\ \E stream_id \in SampleIds :
         smp' = [live |-> TRUE, stream_id |-> stream_id, it |-> StreamChunks(avi.movi),
                 log |-> <<>>, res |-> ""]
    /\ UNCHANGED <<stream, pos, checks, panicked, root, it1, cur1, it2, cur2, log1,
                   borrowed, last, file, avi, best, sid>>

\* next() on the sample sequence; a call that never returns leaves the
\* program in it
NextSample ==
    /\ ~panicked
    /\ smp.live
    /\ smp.res \notin { "None", "Hang" }
    /\ LET r == FilterNext(stream, pos, smp.it, checks, smp.stream_id, {})
       IN  /\ smp' = [smp EXCEPT !.it = r.it, !.res = r.res,
                                  !.log = IF r.res = "Item" THEN Append(@, r.at) ELSE @]
           /\ pos' = r.pos
           /\ panicked' = (r.res = "Panic")
    /\ UNCHANGED <<stream, checks, root, it1, cur1, it2, cur2, log1, borrowed, last,
                   file, avi, best, sid>>

NextMovi ==
    \/ New
    \/ MoviChunks
    \/ NextSample

\* the sample sequences of the AVI layer on the files of MoviFiles
SpecMovi == InitMovi /\ [][NextMovi]_vars

\* ========================================================================
\* Properties
\* ========================================================================
\* the offset of a held node's header, and the size field stored there
HeaderOffset(n) ==
    n.data_start - (IF n.kind = "List" THEN ListHeaderSize ELSE ChunkHeaderSize)
SizeField(n) == U32LE(Bytes(stream, HeaderOffset(n) + 4, 4))

\* the end of a list's data as the format defines it: the declared size
\* counts the list_id, which lies before data_start
ListEndOffset(list) == list.data_start + list.size - FourccSize

\* the bytes a child occupies: header, payload, pad byte
Occupies(n) == ChunkHeaderSize + n.size + (n.size % 2)

HeldNodes == { n \in {root, cur1, cur2} \cup { log1[i].node : i \in DOMAIN log1 } :
               n.kind # "None" }

\* a header was read by the last operation, an advance of iterator op
HeaderReadBy(op) == last.op = op /\ last.res \in {"List", "Chunk", "Malformed", "IoErr"}

\* ---- C1 ----------------------------------------------------------------
\* C1: after a chunk child with header at p and declared size s, the
\* iterator reads its next header at p + 8 + s + (s mod 2).
C1_NextHeaderAfterChunk ==
    /\ \A i \in DOMAIN log1 :
         (i < Len(log1) /\ log1[i].node.kind = "Chunk")
            => log1[i + 1].at = log1[i].at + Occupies(log1[i].node)
    /\ (HeaderReadBy("next1") /\ ~Yielded(last) /\ log1 # <<>>
          /\ log1[Len(log1)].node.kind = "Chunk")
         => last.at = log1[Len(log1)].at + Occupies(log1[Len(log1)].node)

\* ---- C2 ----------------------------------------------------------------
\* C2: data_size() of a List node is its declared size field minus 4, and
\* data_size() of a Chunk node is its declared size field.
C2_DataSize ==
    \A n \in HeldNodes :
        DataSize(n) = IF n.kind = "List" THEN SizeField(n) - FourccSize ELSE SizeField(n)

\* ---- C3 ----------------------------------------------------------------
\* C3: no header is read, and so no child is yielded, at or beyond
\* list.data_start + (declared size - 4), for lists of odd size too.
C3_NoChildBeyondEnd ==
    /\ it1.live =>
         /\ \A i \in DOMAIN log1 : log1[i].at < ListEndOffset(it1.list)
         /\ HeaderReadBy("next1") => last.at < ListEndOffset(it1.list)
    /\ it2.live =>
         /\ cur2.kind # "None" => HeaderOffset(cur2) < ListEndOffset(it2.list)
         /\ HeaderReadBy("next2") => last.at < ListEndOffset(it2.list)

\* an iterator over a list of odd declared size has yielded and then ended
C3_Witness ==
    /\ last.op = "next1" /\ last.res = "None"
    /\ it1.list.size % 2 = 1
    /\ log1 # <<>>

\* ---- C4 ----------------------------------------------------------------
\* the end of a child's data: data start plus data size
ChildEnd(n) == IF n.kind = "List" THEN ListEndOffset(n) ELSE n.data_start + n.size

\* C4: the end of every yielded child (data start plus data size) is not
\* beyond the end of its parent list.  Stated for the streams in which no
\* size can overflow, so that its failure is not the overflow's.
C4_ChildEndWithinParent ==
    ~CanOverflow(stream) =>
        /\ it1.live => \A i \in DOMAIN log1 :
                          ChildEnd(log1[i].node) <= ListEndOffset(it1.list)
        /\ (it2.live /\ cur2.kind # "None") => ChildEnd(cur2) <= ListEndOffset(it2.list)

\* ---- C5 ----------------------------------------------------------------
\* the children laid out from offset p tile the bytes up to end exactly
RECURSIVE Tiles(_, _, _)
Tiles(s, p, end) ==
    IF p = end THEN TRUE
    ELSE IF p > end \/ ~Avail(s, p, ChunkHeaderSize) THEN FALSE
    ELSE LET tag  == Bytes(s, p, 4)
             size == U32LE(Bytes(s, p + 4, 4))
             next == p + ChunkHeaderSize + size + (size % 2)
         IN  /\ tag # TagRIFF
             /\ tag = TagLIST => Avail(s, p, ListHeaderSize)
             /\ next <= Len(s)
             /\ Tiles(s, next, end)

WellFormed(list) ==
    /\ list.kind = "List"
    /\ list.size >= FourccSize
    /\ Tiles(stream, list.data_start, ListEndOffset(list))

\* C5: over a well-formed list every advance moves next_position by header
\* + data_size + pad, no advance fails, and the advance after the last child
\* finds next_position at the list's declared end and returns None without
\* touching the stream.
C5_WellFormedEndsExactly ==
    /\ (it1.live /\ WellFormed(it1.list)) =>
         /\ \A i \in DOMAIN log1 :
               /\ log1[i].at = IF i = 1 THEN it1.list.data_start
                               ELSE log1[i - 1].at + Occupies(log1[i - 1].node)
               /\ i = Len(log1) => it1.next_position = log1[i].at + Occupies(log1[i].node)
         /\ it1.next_position <= ListEndOffset(it1.list)
         /\ last.op = "next1" =>
               /\ last.res \in {"List", "Chunk", "None"}
               /\ last.res = "None" =>
                     /\ it1.next_position = ListEndOffset(it1.list)
                     /\ pos = last.at
    /\ (it2.live /\ WellFormed(it2.list) /\ last.op = "next2") =>
         /\ last.res \in {"List", "Chunk", "None"}
         /\ last.res = "None" =>
               /\ it2.next_position = ListEndOffset(it2.list)
               /\ pos = last.at

\* a well-formed root with an odd-sized chunk among three children was
\* iterated to its end
C5_Witness ==
    /\ it1.live /\ WellFormed(it1.list)
    /\ last.op = "next1" /\ last.res = "None"
    /\ Len(log1) = 3
    /\ \E i \in DOMAIN log1 : log1[i].node.kind = "Chunk" /\ log1[i].node.size % 2 = 1

\* ---- C6 ----------------------------------------------------------------
\* the children an iterator yields when nothing else uses the stream
RECURSIVE AloneWalk(_, _, _, _)
AloneWalk(s, cursor, it, chk) ==
    LET r == IterNext(s, cursor, it, chk)
    IN  IF Yielded(r)
        THEN <<[at |-> r.at, node |-> r.node]>>
             \o AloneWalk(s, r.pos, [it EXCEPT !.next_position = r.next_position], chk)
        ELSE <<>>

IsPrefix(a, b) == Len(a) <= Len(b) /\ \A i \in DOMAIN a : a[i] = b[i]

\* C6: whatever the nested iterator and the data reads did to the cursor
\* in between, the root's iterator yields the children, at the offsets, it
\* yields when iterated alone.
C6_IndependentOfCursor ==
    it1.live => IsPrefix(log1, AloneWalk(stream, root.data_start, NewIter(root), checks))

\* the root's iterator yielded its second child after the nested iterator
\* had yielded a chunk and a data read had moved the cursor off the offset
\* the root's iterator had left it at
C6_Witness ==
    /\ Len(log1) >= 2
    /\ log1[1].node.kind = "List"
    /\ cur2.kind = "Chunk"
    /\ last.op \in {"struct", "data", "vec"} /\ last.res = "Ok"
    /\ pos # cur1.data_start

\* ---- C7 ----------------------------------------------------------------
\* C7: the offsets at which an iterator reads the headers it yields grow by
\* at least 8, and so does next_position at every successful advance.
C7_StrictlyForward ==
    /\ it1.live =>
         /\ it1.next_position >= it1.list.data_start
         /\ \A i \in DOMAIN log1 :
               log1[i].at + ChunkHeaderSize <=
                  IF i < Len(log1) THEN log1[i + 1].at ELSE it1.next_position
    /\ (it2.live /\ cur2.kind # "None") =>
         HeaderOffset(cur2) + ChunkHeaderSize <= it2.next_position

\* a chunk of size 0 and a nested list of declared size below 4 were yielded
C7_Witness ==
    /\ \E i \in DOMAIN log1 : log1[i].node.kind = "Chunk" /\ log1[i].node.size = 0
    /\ \E i \in DOMAIN log1 : log1[i].node.kind = "List" /\ log1[i].node.size < FourccSize

\* ---- C8 ----------------------------------------------------------------
\* C8: read_data_struct on a node decodes the record at the node's data
\* start, wherever the cursor was.
C8_StructReadAtDataStart ==
    (last.op = "struct") =>
        LET n == Len(last.val)
        IN  /\ last.res = "Ok" =>
                 /\ Avail(stream, last.node.data_start, n)
                 /\ last.val = Bytes(stream, last.node.data_start, n)
            /\ last.res = "IoErr" =>
                 \E k \in StructSizes : ~Avail(stream, last.node.data_start, k)

\* ---- C9 ----------------------------------------------------------------
\* C9: riff() fails as malformed when the header it reads is not tagged
\* RIFF, and the root it returns starts right after the 12-byte outer
\* header, where the first child's header is read.
C9_RootOpen ==
    /\ last.op = "riff" =>
         /\ (Avail(stream, last.at, ChunkHeaderSize) /\ Bytes(stream, last.at, 4) # TagRIFF)
               => (last.res = "Malformed" /\ root = NoNode)
         /\ last.res = "Ok" => (root = last.node /\ pos = root.data_start)
         /\ last.res # "Ok" => root = NoNode
    /\ root.kind # "None" =>
         /\ root.kind = "List"
         /\ root.data_start >= ListHeaderSize
         /\ Bytes(stream, root.data_start - ListHeaderSize, 4) = TagRIFF
         /\ root.size = U32LE(Bytes(stream, root.data_start - 8, 4))
         /\ root.id = Bytes(stream, root.data_start - 4, 4)
         /\ log1 # <<>> => log1[1].at = root.data_start

\* riff() failed on a LIST header and then opened the root at the RIFF
\* header after it
C9_Witness ==
    /\ last.op = "riff" /\ last.res = "Ok"
    /\ last.at = ListHeaderSize
    /\ Bytes(stream, 0, 4) = TagLIST

\* ---- C10 ---------------------------------------------------------------
\* the bytes at offset p are a whole outer header
RiffHeaderAt(p) == Avail(stream, p, ListHeaderSize) /\ Bytes(stream, p, 4) = TagRIFF

\* C10: an advance that reads an outer (RIFF) header where a child is
\* expected returns the malformed error, and no node is yielded for it.
C10_NestedRiffRejected ==
    /\ \A op \in {"next1", "next2"} :
         (HeaderReadBy(op) /\ RiffHeaderAt(last.at))
            => (last.res = "Malformed" /\ last.node = NoNode)
    /\ \A i \in DOMAIN log1 : ~RiffHeaderAt(log1[i].at)
    /\ \A n \in HeldNodes \ {root} : ~RiffHeaderAt(HeaderOffset(n))

\* the nested iterator read an outer header inside a list
C10_Witness ==
    /\ last.op = "next2" /\ last.res = "Malformed"
    /\ RiffHeaderAt(it2.next_position)

\* ------------------------------------------------------------------------
\* C11: read_data with a buffer shorter or longer than the node's
\* data_size() returns the size-mismatch error, stores nothing in the
\* buffer and leaves the stream's cursor where it was.
\* ------------------------------------------------------------------------
C11_SizeMismatchReadsNothing ==
    (last.op = "data" /\ last.buflen # DataSize(last.node))
        => /\ last.res = "SizeMismatch"
           /\ last.val = <<>>
           /\ pos = last.at

\* a buffer one byte short and a buffer one byte long were both refused with
\* enough bytes left in the stream to fill them
C11_WitnessShort ==
    /\ last.op = "data" /\ last.res = "SizeMismatch"
    /\ last.buflen < DataSize(last.node)
    /\ Avail(stream, pos, last.buflen)

C11_Witness ==
    /\ last.op = "data" /\ last.res = "SizeMismatch"
    /\ last.buflen > DataSize(last.node)
    /\ Avail(stream, pos, last.buflen + 1)
    /\ pos > ListHeaderSize

\* ------------------------------------------------------------------------
\* C12: a successful read_data or read_data_vec on a chunk that its iterator
\* has just yielded (the cursor is at the chunk's data start) consumes
\* data_size() bytes and one pad byte iff data_size() is odd, so the cursor
\* ends at the offset the iterator cached for the next sibling; the buffer
\* read_data_vec returns holds exactly data_size() bytes.
\* ------------------------------------------------------------------------
\* the iterators, each with the node it yielded last
YieldedBy == { <<it1, cur1>>, <<it2, cur2>> }

\* the last operation read the whole data of the chunk that x's iterator
\* yielded last, starting at the chunk's data start
ReadJustYielded(x) ==
    /\ last.op \in {"data", "vec"} /\ last.res = "Ok"
    /\ x[1].live /\ x[2].kind = "Chunk"
    /\ last.node = x[2] /\ last.at = x[2].data_start

C12_ReadEndsAtNextSibling ==
    \A x \in YieldedBy :
        ReadJustYielded(x) =>
            /\ pos = last.at + DataSize(last.node) + (DataSize(last.node) % 2)
            /\ pos = x[1].next_position
            /\ Len(last.val) = DataSize(last.node)

\* ------------------------------------------------------------------------
\* C13: at most one borrow of the shared reader is outstanding: riff,
\* next, read_data_struct, read_data and read_data_vec each take the
\* exclusive borrow and drop it before they return, so between operations
\* none is outstanding and no operation, on any held node or iterator, finds
\* the reader already borrowed.
\* ------------------------------------------------------------------------
C13_NoOverlappingBorrow ==
    /\ borrowed = 0
    /\ last.res # "BorrowPanic"

\* a data read on a node of the nested iterator, after both iterators have
\* yielded and while both are live
C13_Witness ==
    /\ it1.live /\ it2.live /\ cur2.kind # "None"
    /\ last.op \in {"struct", "data", "vec"} /\ last.res = "Ok"
    /\ last.node = cur2
    /\ borrowed = 0

\* ------------------------------------------------------------------------
\* What a description lays out, read off the description alone
\* ------------------------------------------------------------------------
\* AviParser::new has returned
Built == file # NoFile /\ avi.res # "none"

\* the tag chain is laid out as required
ChainOk(f) == f.form = TagAVI /\ f.head = "hdrl" /\ f.avih = "avih"

\* the number of whole strl groups at the head of hdrl, after avih
Present(f) ==
    CHOOSE k \in 0..Len(f.groups) :
        /\ \A i \in 1..k : f.groups[i].shape = "ok"
        /\ k = Len(f.groups) \/ f.groups[k + 1].shape # "ok"

\* the declared groups are all there and their formats can be decoded
TableOk(f) ==
    /\ ChainOk(f)
    /\ f.n <= Present(f)
    /\ \A i \in 1..f.n : f.groups[i].fmt \notin UnknownFormats

\* the 0-based positions, among the declared groups, of the video and audio
\* streams
Accepted(f) ==
    SelectSeq([i \in 1..f.n |-> i - 1],
              LAMBDA i : f.groups[i + 1].fcc_type \in { TagVIDS, TagAUDS })

\* the offset of the k-th sibling after hdrl
SiblingOffset(f, k) ==
    ListHeaderSize + Len(HeadBytes(f))
    + Len(Flatten([j \in 1..(k - 1) |-> SiblingBytesOf(f, f.tail[j])]))

\* the places in the tail where a LIST movi lies
MoviPlaces(f) == { k \in DOMAIN f.tail : f.tail[k] = "list_movi" }

\* ------------------------------------------------------------------------
\* C14: AviParser::new enforces the tag chain in order and skips no node:
\* the root's form type must be "AVI ", its first child a LIST hdrl, hdrl's
\* first child a chunk avih.  A node of the wrong kind or with the wrong id
\* at one of these places fails the build with the missing-tag error for
\* that place, carrying a stream position; an absent child fails it with
\* unexpected-end-of-data.
\* ------------------------------------------------------------------------
MissingAt(tag) ==
    avi.res = "Missing" /\ avi.tag = tag /\ avi.at \in 0..Len(stream)

C14_TagChain ==
    Built =>
        IF file.form # TagAVI THEN MissingAt(TagAVI)
        ELSE IF file.head \in { "list_other", "chunk_hdrl" } THEN MissingAt(TagHDRL)
        ELSE IF file.head = "absent" THEN avi.res = "Eof"
        ELSE IF file.avih \in { "chunk_other", "list_avih" } THEN MissingAt(TagAVIH)
        ELSE IF file.avih = "absent" THEN avi.res = "Eof"
        ELSE ~(avi.res = "Missing" /\ avi.tag \in { TagAVI, TagHDRL, TagAVIH })

\* a LIST whose id is avih stood where the chunk avih is required
C14_Witness ==
    /\ Built /\ file.form = TagAVI /\ file.head = "hdrl" /\ file.avih = "list_avih"
    /\ MissingAt(TagAVIH)

\* ------------------------------------------------------------------------
\* C15 (as stated): when avih declares N streams and hdrl holds fewer than N
\* strl groups, AviParser::new fails with unexpected-end-of-data.
\* ------------------------------------------------------------------------
\* fewer whole groups than declared, and what stands after them is not a
\* LIST strl
FewerGroups(f) ==
    /\ ChainOk(f)
    /\ Present(f) < f.n
    /\ \A i \in 1..Present(f) : f.groups[i].fmt \notin UnknownFormats
    /\ \A i \in DOMAIN f.groups : f.groups[i].shape \in { "ok", "chunk_strl", "list_other" }

\* hdrl ends after its whole groups
HdrlEndsAfterGroups(f) == Present(f) = Len(f.groups) /\ f.hdrl_tail = "none"

C15_FewerGroupsIsEof ==
    (Built /\ FewerGroups(file)) => avi.res = "Eof"

\* ------------------------------------------------------------------------
\* C15 (amended): when avih declares N streams and hdrl holds fewer than N
\* strl groups, AviParser::new fails and returns no stream table: with
\* unexpected-end-of-data when hdrl ends where the next group is required,
\* and with the missing-tag error for strl when another node stands there.
\* ------------------------------------------------------------------------
C15_FewerGroupsFails ==
    (Built /\ FewerGroups(file)) =>
        /\ avi.res # "Ok"
        /\ avi.stream_info = <<>>
        /\ IF HdrlEndsAfterGroups(file) THEN avi.res = "Eof" ELSE MissingAt(TagSTRL)

\* three streams declared, two groups laid out, hdrl ends after them
C15_Witness ==
    /\ Built /\ FewerGroups(file)
    /\ file.n = 3 /\ Present(file) = 2 /\ HdrlEndsAfterGroups(file)
    /\ avi.res = "Eof"

\* ------------------------------------------------------------------------
\* C16: a declared stream whose fcc_type is neither vids nor auds is left
\* out of the stream table without an error and without its strf payload
\* being decoded; the build succeeds, and the table holds exactly the
\* declared vids and auds streams, in the order they are declared.
\* ------------------------------------------------------------------------
KindOf(fcc_type) == IF fcc_type = TagVIDS THEN "Video" ELSE "Audio"

C16_OtherTypesDropped ==
    (Built /\ TableOk(file) /\ MoviPlaces(file) # {}) =>
        /\ avi.res = "Ok"
        /\ avi.decoded = Accepted(file)
        /\ Len(avi.stream_info) = Len(Accepted(file))
        /\ \A k \in DOMAIN avi.stream_info :
             LET g == file.groups[Accepted(file)[k] + 1]
             IN  /\ avi.stream_info[k].kind = KindOf(g.fcc_type)
                 /\ avi.stream_info[k].fcc_type = g.fcc_type
                 /\ avi.stream_info[k].priority = g.priority

\* a text stream declared between a video and an audio stream
C16_Witness ==
    /\ Built /\ avi.res = "Ok" /\ file.n = 3
    /\ file.groups[1].fcc_type = TagVIDS
    /\ file.groups[2].fcc_type = TagTXTS
    /\ file.groups[3].fcc_type = TagAUDS
    /\ Len(avi.stream_info) = 2

\* ------------------------------------------------------------------------
\* C17: an accepted stream's sample id is the two ASCII decimal digits of
\* min(i, 99), zero-padded, i being the stream's 0-based position among the
\* declared strl groups (dropped streams count), followed by "wb" for an
\* audio stream and "dc" for a video stream; for every u32 index the first
\* two bytes of tag::stream's id are ASCII digits.
\* ------------------------------------------------------------------------
DigitChars == << 48, 49, 50, 51, 52, 53, 54, 55, 56, 57 >>

TwoDigits(i) ==
    LET m == IF i < 99 THEN i ELSE 99
    IN  << DigitChars[(m \div 10) + 1], DigitChars[(m % 10) + 1] >>

KindCode(kind) == IF kind = "Audio" THEN << 119, 98 >> ELSE << 100, 99 >>

C17_SampleIds ==
    /\ sid.id # <<>> =>
         /\ sid.id = TwoDigits(sid.index) \o sid.datatype
         /\ sid.id[1] \in 48..57 /\ sid.id[2] \in 48..57
    /\ (Built /\ avi.res = "Ok") =>
         \A k \in DOMAIN avi.stream_info :
            avi.stream_info[k].stream_id
                = TwoDigits(Accepted(file)[k]) \o KindCode(avi.stream_info[k].kind)

\* an index above 99 was given to tag::stream
C17_Witness == sid.id # <<>> /\ sid.index > 99

\* an audio stream declared after a dropped stream got its id
C17_WitnessTable ==
    /\ Built /\ avi.res = "Ok"
    /\ \E k \in DOMAIN avi.stream_info :
         /\ Accepted(file)[k] # k - 1
         /\ avi.stream_info[k].kind = "Audio"

\* ------------------------------------------------------------------------
\* C18: after the declared streams AviParser::new goes on with the root's
\* iteration from the sibling after hdrl and takes the first LIST whose id
\* is movi, skipping every other sibling (other lists, and chunks even with
\* the id movi); it fails with unexpected-end-of-data when the root ends
\* with no such list, and with the iteration's error when a sibling's
\* header read fails before one is found.
\* ------------------------------------------------------------------------
C18_FirstMoviList ==
    (Built /\ TableOk(file)) =>
        IF MoviPlaces(file) # {}
        THEN LET k == CHOOSE m \in MoviPlaces(file) : \A j \in MoviPlaces(file) : m <= j
             IN  /\ avi.res = "Ok"
                 /\ avi.movi.kind = "List" /\ avi.movi.id = TagMOVI
                 /\ avi.movi.data_start = SiblingOffset(file, k) + ListHeaderSize
        ELSE IF file.ending = "end" THEN avi.res = "Eof"
        ELSE IF file.ending = "trunc" THEN avi.res = "IoErr"
        ELSE avi.res = "Malformed"

\* the movi list was taken after a chunk with the id movi and another list
C18_Witness ==
    /\ Built /\ avi.res = "Ok"
    /\ file.tail = << "chunk_movi", "list_other", "list_movi" >>
    /\ avi.movi.data_start = SiblingOffset(file, 3) + ListHeaderSize

\* ------------------------------------------------------------------------
\* C19: find_best_stream for a kind considers the table's entries of that
\* kind only and returns one of them whose priority is the maximum among
\* them; it returns none exactly when the table has no entry of the kind.
\* ------------------------------------------------------------------------
OfKind(kind) == { i \in DOMAIN avi.stream_info : avi.stream_info[i].kind = kind }

C19_BestOfKind ==
    best.kind # "" =>
        /\ best.at = 0 <=> OfKind(best.kind) = {}
        /\ best.at # 0 =>
             /\ best.at \in OfKind(best.kind)
             /\ \A j \in OfKind(best.kind) :
                  avi.stream_info[j].priority <= avi.stream_info[best.at].priority

\* the best stream of its kind, of several, with an entry of the other kind
\* above it in priority
C19_Witness ==
    /\ best.kind # "" /\ best.at # 0
    /\ Cardinality(OfKind(best.kind)) >= 2
    /\ \E j \in DOMAIN avi.stream_info :
         avi.stream_info[j].priority > avi.stream_info[best.at].priority

\* ------------------------------------------------------------------------
\* C20: when several entries of the kind have the maximum priority,
\* find_best_stream returns the one that comes first in the table.
\* ------------------------------------------------------------------------
C20_TieGoesToFirst ==
    (best.kind # "" /\ best.at # 0) =>
        \A j \in OfKind(best.kind) :
            avi.stream_info[j].priority = avi.stream_info[best.at].priority
                => best.at <= j

\* ------------------------------------------------------------------------
\* The children of the movi list, read off the description alone
\* ------------------------------------------------------------------------
\* the offset of the header of movi's j-th child
SampleOffset(f, j) ==
    SiblingOffset(f, 1) + ListHeaderSize
    + Len(Flatten([i \in 1..(j - 1) |-> SampleBytes(f.movi.samples[i])]))

\* the immediate children of movi that are chunks with the id stream_id
Matching(f, stream_id) ==
    SelectSeq([j \in DOMAIN f.movi.samples |-> j],
              LAMBDA j : /\ f.movi.samples[j] \in { "00dc", "01wb", "junk" }
                         /\ SubSeq(SampleBytes(f.movi.samples[j]), 1, FourccSize) = stream_id)

MatchingOffsets(f, stream_id) ==
    [k \in DOMAIN Matching(f, stream_id) |-> SampleOffset(f, Matching(f, stream_id)[k])]

\* ------------------------------------------------------------------------
\* C21: movi_chunks(stream_id) yields exactly the immediate chunk children of
\* the movi list whose id is stream_id, each once and in stream order: what
\* it has yielded is always the first of them, and all of them when it
\* returns None.  Children with another id and lists (also with that id)
\* are not yielded, and lists are not descended into.
\* ------------------------------------------------------------------------
C21_SamplesOfStream ==
    smp.live =>
        /\ IsPrefix(smp.log, MatchingOffsets(file, smp.stream_id))
        /\ smp.res = "Item" => smp.log # <<>>
        /\ smp.res = "None" => smp.log = MatchingOffsets(file, smp.stream_id)

\* two video samples around an audio sample and a rec list: both video
\* samples were yielded, and then None
C21_Witness ==
    /\ smp.live /\ smp.res = "None"
    /\ smp.stream_id = TagStream(0, DataVideoCompressed)
    /\ file.movi.samples = << "00dc", "rec", "00dc" >>
    /\ Len(smp.log) = 2

\* ------------------------------------------------------------------------
\* C22: an I/O failure or a malformed-header error met while a sample
\* sequence advances over movi is delivered to the caller as an error item:
\* every call of next() returns, and it returns None only when movi's
\* children were walked to the list's end without an error.
\* ------------------------------------------------------------------------
C22_ErrorsDelivered ==
    smp.live =>
        /\ smp.res # "Hang"
        /\ smp.res = "None" => file.movi.ending = "end"

\* ------------------------------------------------------------------------
\* C23: an audio stream's strf payload is decoded by its leading u16: 0x0001
\* gives Pcm, 0xFFFE Extensible, 0x0050 Mpeg1, 0x0055 Mp3.  Any other value
\* makes AviParser::new fail with the unrecognized-discriminant error: the
\* stream is not dropped and no variant is put in its place.
\* ------------------------------------------------------------------------
\* the leading u16 of a group's strf payload, and the variant it stands for
LeadingTag(g) == U8Mod * StrfData(g)[2] + StrfData(g)[1]

VariantOfTag(t) ==
    CASE t = 1     -> "Pcm"
      [] t = 65534 -> "Extensible"
      [] t = 80    -> "Mpeg1"
      [] t = 85    -> "Mp3"
      [] OTHER     -> ""

\* the declared groups are whole, and the first audio stream with a tag
\* that stands for no variant, 0 when there is none
DeclaredWhole(f) == ChainOk(f) /\ f.n <= Present(f)

UnknownTagged(f) ==
    { i \in 1..f.n : f.groups[i].fcc_type = TagAUDS
                       /\ VariantOfTag(LeadingTag(f.groups[i])) = "" }

C23_AudioFormatByTag ==
    (Built /\ DeclaredWhole(file)) =>
        IF UnknownTagged(file) # {}
        THEN avi.res = "NoVariant" /\ avi.stream_info = <<>>
        ELSE /\ avi.res # "NoVariant"
             /\ avi.res = "Ok" =>
                  \A k \in DOMAIN avi.stream_info :
                     avi.stream_info[k].kind = "Audio" =>
                        avi.stream_info[k].format
                            = VariantOfTag(LeadingTag(file.groups[Accepted(file)[k] + 1]))

\* a Pcm stream was decoded, and the stream after it has the tag 0x0155
C23_Witness ==
    /\ Built /\ DeclaredWhole(file) /\ file.n = 2
    /\ VariantOfTag(LeadingTag(file.groups[1])) = "Pcm"
    /\ LeadingTag(file.groups[2]) = 341
    /\ avi.res = "NoVariant"

\* an Mp3 stream in the table
C23_WitnessMp3 ==
    /\ Built /\ avi.res = "Ok" /\ avi.stream_info # <<>>
    /\ avi.stream_info[Len(avi.stream_info)].format = "Mp3"

\* ------------------------------------------------------------------------
\* C24: a failed advance of a list iterator (a header that cannot be read, a
\* nested RIFF header) leaves the iterator's cached next position
\* unchanged; every later next() on it, whatever was done on the stream in
\* between, reads at the same offset and returns the error again, never
\* None.
\* ------------------------------------------------------------------------
\* next() on the iterator would fail now
Stuck(s, cursor, it, chk) == it.live /\ IterNext(s, cursor, it, chk).res \in IterErrors

\* one step, seen from an iterator: `it` before and `it_next` after it,
\* next_op the name of its next(), iter_op that of its creation
FailedAdvanceKept(it, it_next, next_op, iter_op) ==
    /\ (last'.op = next_op /\ last'.res \in IterErrors) =>
          /\ it_next.next_position = it.next_position
          /\ last'.at = it.next_position
          /\ Stuck(stream', pos', it_next, checks')
    /\ (Stuck(stream, pos, it, checks) /\ last'.op # iter_op) =>
          /\ it_next = it
          /\ Stuck(stream', pos', it_next, checks')
          /\ last'.op = next_op =>
                /\ last'.res = IterNext(stream, pos, it, checks).res
                /\ last'.at = it.next_position

C24_FailedAdvanceRepeats ==
    [][ /\ FailedAdvanceKept(it1, it1', "next1", "iter1")
        /\ FailedAdvanceKept(it2, it2', "next2", "iter2") ]_vars

\* next() on the root's iterator failed on a nested RIFF header, and the
\* next() before it had failed too
C24_Witness ==
    /\ last.op = "next1" /\ last.again
    /\ last.res = "Malformed"
    /\ last.at = it1.next_position

\* the same with a header the stream does not hold
C24_WitnessIo ==
    /\ last.op = "next2" /\ last.again
    /\ last.res = "IoErr"
    /\ last.at = it2.next_position

\* ------------------------------------------------------------------------
\* C25: iterating the children of a list ends when every header read
\* succeeds: next() never fails to return, the iterator yields at most
\* (list data length / 8) items, whatever sizes the children declare, and
\* after that many items next() returns None.
\* ------------------------------------------------------------------------
\* the bytes a list declares for its children: its size and pad, less the
\* list type
ListLength(list) == list.size + DataPad(list) - FourccSize

\* what is known of the number of items the nested iterator has yielded:
\* none, the first child, or a later one
Yielded2 ==
    IF cur2.kind = "None" THEN 0
    ELSE IF HeaderOffset(cur2) = it2.list.data_start THEN 1 ELSE 2

\* an iterator that has yielded k items of a list keeps to the claim
EndsWithin(it, k) ==
    /\ ChunkHeaderSize * k <= ListLength(it.list)
    /\ (~panicked /\ ChunkHeaderSize * (k + 1) > ListLength(it.list)) =>
          IterNext(stream, pos, it, checks).res \in { "None", "IoErr" }

C25_IterationEnds ==
    /\ ~(last.op \in { "next1", "next2" } /\ last.res = "Panic")
    /\ it1.live => EndsWithin(it1, Len(log1))
    /\ it2.live => EndsWithin(it2, Yielded2)

\* What holds of the iteration in a build without overflow checks: next()
\* returns None once the iterator has yielded a child for every 8 bytes,
\* begun or whole, between the list's data and the offset next() stops at
MostItems(list) ==
    LET span == ListBound(list) - list.data_start
    IN  IF span <= 0 THEN 0 ELSE (span + ChunkHeaderSize - 1) \div ChunkHeaderSize

IterationEndsWrapped ==
    ~checks =>
        /\ it1.live =>
             /\ Len(log1) <= MostItems(it1.list)
             /\ Len(log1) = MostItems(it1.list) =>
                   IterNext(stream, pos, it1, checks).res = "None"
        /\ it2.live =>
             /\ Yielded2 <= MostItems(it2.list)
             /\ MostItems(it2.list) = 0 => IterNext(stream, pos, it2, checks).res = "None"

\* ------------------------------------------------------------------------
\* C26: the next sibling's offset and the list's end offset are computed
\* without 32-bit wrap-around for every declared u32 size: after a child
\* was yielded the cached next position is data_start + size + pad (less 4
\* for a list), the offset at which next() stops is the list's data_start +
\* size + pad - 4, and no advance panics on the sum.
\* ------------------------------------------------------------------------
\* the offset after a node's data and pad, in unbounded arithmetic
OffsetAfter(n) ==
    n.data_start + n.size + DataPad(n) - (IF n.kind = "List" THEN FourccSize ELSE 0)

C26_NoWrapAround ==
    /\ last.res # "Panic"
    /\ (last.op = "next1" /\ Yielded(last)) => it1.next_position = OffsetAfter(last.node)
    /\ (last.op = "next2" /\ Yielded(last)) => it2.next_position = OffsetAfter(last.node)
    /\ it1.live => ListBound(it1.list) = OffsetAfter(it1.list)
    /\ it2.live => ListBound(it2.list) = OffsetAfter(it2.list)
====
